---- MODULE Spec2Model ----
(***************************************************************************)
(* Model of the streaming markdown chunker of markdown_lab                 *)
(* (src/src/chunker.rs): StreamingChunker::new / add_line / finalize,      *)
(* split_large_chunk, find_optimal_split_point and create_chunk_object.    *)
(*                                                                         *)
(* A Rust String is modelled as the sequence of its UTF-8 bytes.  Every    *)
(* byte of the model's alphabet is a one-character string, except the two  *)
(* bytes "C3" "A9" that together encode the single two-byte character      *)
(* U+00E9.  String::len() is the length of the byte sequence; chars()      *)
(* skips continuation bytes; slicing off a character boundary panics.      *)
(* Option<T> is modelled as a sequence of length 0 (None) or 1 (Some).     *)
(***************************************************************************)
EXTENDS Integers, Sequences, FiniteSets, TLC

\* ------------------------------------------------------------------ bounds
MaxLines == 3
MaxChunkSize == 8
MaxChunkOverlap == 4
MaxFill == 21
MaxExtra == 2
MaxTextLen == 4
NumTasks == 3

\* ------------------------------------------------------- bytes and strings
NL == "\n"
SP == " "
HASH == "#"
DOT == "."
CR == "\r"
LEAD == "C3"
CONT == "A9"

\* char::is_whitespace, on the characters of the alphabet
is_whitespace(c) == c \in {SP, NL, CR}

\* a UTF-8 continuation byte: not the first byte of a character
IsContinuation(b) == b = CONT

\* str::is_char_boundary(i), i a 0-based byte index
is_char_boundary(s, i) ==
    \/ i = 0
    \/ i = Len(s)
    \/ i > 0 /\ i < Len(s) /\ ~IsContinuation(s[i + 1])

\* s[a..b] with 0-based byte indexes, a <= b <= Len(s)
Slice(s, a, b) == SubSeq(s, a + 1, b)

\* str::chars(): one entry per character (its first byte)
Chars(s) == SelectSeq(s, LAMBDA b : ~IsContinuation(b))

\* str::chars().count()
CharCount(s) == Len(Chars(s))

\* str::split_whitespace().count()
WordCount(s) ==
    LET cs == Chars(s)
    IN  Cardinality({i \in 1..Len(cs) :
            /\ ~is_whitespace(cs[i])
            /\ (i = 1 \/ is_whitespace(cs[i - 1]))})

\* str::trim(): strips leading and trailing whitespace
RECURSIVE TrimStart(_)
TrimStart(s) ==
    IF s # <<>> /\ is_whitespace(Head(s)) THEN TrimStart(Tail(s)) ELSE s

RECURSIVE TrimEnd(_)
TrimEnd(s) ==
    IF s # <<>> /\ is_whitespace(s[Len(s)])
    THEN TrimEnd(SubSeq(s, 1, Len(s) - 1))
    ELSE s

trim(s) == TrimEnd(TrimStart(s))

\* Option helpers
None == <<>>
Some(x) == <<x>>

\* ------------------------------------------------------------ HEADING_REGEX
\* number of leading '#' bytes
RECURSIVE HashRun(_)
HashRun(s) == IF s # <<>> /\ Head(s) = HASH THEN 1 + HashRun(Tail(s)) ELSE 0

\* number of leading whitespace bytes
RECURSIVE SpaceRun(_)
SpaceRun(s) ==
    IF s # <<>> /\ is_whitespace(Head(s)) THEN 1 + SpaceRun(Tail(s)) ELSE 0

\* (.+)$ : one or more characters other than '\n', up to the end of the text
DotPlusToEnd(s) == s # <<>> /\ \A i \in 1..Len(s) : s[i] # NL

\* ^(#{1,6})\s+(.+)$ : the group #{1,6} must be followed by whitespace, so it
\* matches only when the whole run of '#' has 1..6 bytes; \s+ is greedy and
\* gives back whitespace until (.+)$ can match.
HeadingSpaces(line) ==
    LET h == HashRun(line)
        rest == SubSeq(line, h + 1, Len(line))
    IN  {j \in 1..SpaceRun(rest) : DotPlusToEnd(SubSeq(rest, j + 1, Len(rest)))}

HEADING_REGEX_is_match(line) ==
    /\ HashRun(line) \in 1..6
    /\ HeadingSpaces(line) # {}

\* captures[1].len() and captures[2] of a matching line
HeadingCaptures(line) ==
    LET h == HashRun(line)
        j == CHOOSE k \in HeadingSpaces(line) : \A m \in HeadingSpaces(line) : m <= k
    IN  [level |-> h, text |-> SubSeq(line, h + j + 1, Len(line))]

\* ------------------------------------------------ calculate_semantic_density
\* str::contains
str_contains(s, sub) ==
    \E k \in 0..(Len(s) - Len(sub)) : SubSeq(s, k + 1, k + Len(sub)) = sub

\* char::is_uppercase, char::is_numeric and char::to_lowercase on the
\* characters of the alphabet ("A", "D" upper case; "1" a digit)
is_uppercase(c) == c \in {"A", "D"}

is_numeric(c) == c = "1"

to_lowercase(word) ==
    [i \in 1..Len(word) |->
        IF word[i] = "A" THEN "a" ELSE IF word[i] = "D" THEN "d" ELSE word[i]]

keywords ==
    { <<"f", "u", "n", "c", "t", "i", "o", "n">>,
      <<"c", "l", "a", "s", "s">>,
      <<"m", "e", "t", "h", "o", "d">>,
      <<"a", "l", "g", "o", "r", "i", "t", "h", "m">>,
      <<"p", "r", "o", "c", "e", "s", "s">>,
      <<"s", "y", "s", "t", "e", "m">>,
      <<"d", "a", "t", "a">>,
      <<"m", "o", "d", "e", "l">>,
      <<"a", "n", "a", "l", "y", "s", "i", "s">>,
      <<"i", "m", "p", "l", "e", "m", "e", "n", "t", "a", "t", "i", "o", "n">> }

\* str::split_whitespace(): the maximal runs of non-whitespace, in order
RECURSIVE SplitWhitespaceFrom(_, _, _)
SplitWhitespaceFrom(s, i, word) ==
    IF i > Len(s) THEN (IF word = <<>> THEN <<>> ELSE <<word>>)
    ELSE IF is_whitespace(s[i])
         THEN (IF word = <<>> THEN <<>> ELSE <<word>>)
                  \o SplitWhitespaceFrom(s, i + 1, <<>>)
         ELSE SplitWhitespaceFrom(s, i + 1, Append(word, s[i]))

split_whitespace(s) == SplitWhitespaceFrom(s, 1, <<>>)

\* the indicators one word adds, in tenths: 0.5, 0.3 and 0.7
word_indicators(word) ==
    LET word_lower == to_lowercase(word)
    IN  (IF is_uppercase(word[1]) THEN 5 ELSE 0)
        + (IF \E i \in 1..Len(word) : is_numeric(word[i]) THEN 3 ELSE 0)
        + (IF \E k \in keywords : str_contains(word_lower, k) THEN 7 ELSE 0)

RECURSIVE SumIndicators(_)
SumIndicators(words) ==
    IF words = <<>> THEN 0
    ELSE word_indicators(Head(words)) + SumIndicators(Tail(words))

\* mutant: the ratio is not clamped to 1.0
density_fraction_unclamped(n, acc) ==
    [num |-> 10 * acc + (IF n * n <= 20 * n THEN n * n ELSE 20 * n),
     den |-> 100 * n]

\* num / den for word_count n > 0 and indicators acc (in tenths)
density_fraction(n, acc) ==
    [num |-> (IF 10 * acc <= 100 * n THEN 10 * acc ELSE 100 * n)
             + (IF n * n <= 20 * n THEN n * n ELSE 20 * n),
     den |-> 100 * n]

\* The f32 result as the exact fraction num / den, den = 100 * word_count:
\* (semantic_indicators / word_count).min(1.0) + (word_count / 100.0).min(0.2)
calculate_semantic_density(text) ==
    LET words == split_whitespace(text)
    IN  IF words = <<>> THEN [num |-> 0, den |-> 1]
        ELSE density_fraction(Len(words), SumIndicators(words))

\* ------------------------------------------------------ create_chunk_object
\* mutant: the characters are counted as bytes (content.len())
create_chunk_object_counts_bytes(content, heading, level, pos) ==
    [content    |-> content,
     heading    |-> heading,
     level      |-> level,
     position   |-> pos,
     word_count |-> WordCount(content),
     char_count |-> Len(content),
     semantic_density |-> calculate_semantic_density(content)]

create_chunk_object(content, heading, level, pos) ==
    [content    |-> content,
     heading    |-> heading,
     level      |-> level,
     position   |-> pos,
     word_count |-> WordCount(content),
     char_count |-> CharCount(content),
     semantic_density |-> calculate_semantic_density(content)]

\* ------------------------------------ calculate_chunk_metadata_efficient
\* the indicators one word adds in calculate_semantic_density_streaming, in
\* tenths; the keyword test is matches!(word_lower.as_str(), ...), equality
\* with one of the keywords
word_indicators_streaming(word) ==
    LET word_lower == to_lowercase(word)
    IN  (IF is_uppercase(word[1]) THEN 5 ELSE 0)
        + (IF \E i \in 1..Len(word) : is_numeric(word[i]) THEN 3 ELSE 0)
        + (IF word_lower \in keywords THEN 7 ELSE 0)

RECURSIVE SumIndicatorsStreaming(_)
SumIndicatorsStreaming(words) ==
    IF words = <<>> THEN 0
    ELSE word_indicators_streaming(Head(words))
             + SumIndicatorsStreaming(Tail(words))

calculate_semantic_density_streaming(text) ==
    LET words == split_whitespace(text)
    IN  IF words = <<>> THEN [num |-> 0, den |-> 1]
        ELSE density_fraction(Len(words), SumIndicatorsStreaming(words))

calculate_chunk_metadata_efficient(content) ==
    [heading    |-> None,
     level      |-> 0,
     position   |-> 0,
     word_count |-> Len(split_whitespace(content)),
     char_count |-> CharCount(content),
     semantic_density |-> calculate_semantic_density_streaming(content)]

\* ------------------------------------------------- find_optimal_split_point
PANIC == -1

\* usize::saturating_sub
saturating_sub(a, b) == IF a > b THEN a - b ELSE 0

Max(S) == CHOOSE x \in S : \A y \in S : y <= x

\* 0-based byte positions p < target where "\n\n" starts inside text[..target]
ParagraphBreaks(text, target) ==
    {p \in 0..(target - 2) : text[p + 1] = NL /\ text[p + 2] = NL}

\* 0-based byte positions of '\n' inside text[..target]
LineBreaks(text, target) == {p \in 0..(target - 1) : text[p + 1] = NL}

\* text.chars().nth(k): the k-th character (0-based), None past the end
chars_nth(text, k) ==
    IF k < CharCount(text) THEN Some(Chars(text)[k + 1]) ELSE None

\* byte indexes i of '.', '!' or '?' inside text[..target] whose
\* text.chars().nth(i + 1) is whitespace
SentenceEnds(text, target) ==
    {i \in 0..(target - 1) :
        /\ text[i + 1] = DOT
        /\ chars_nth(text, i + 1) # None
        /\ is_whitespace(chars_nth(text, i + 1)[1])}

\* 0-based byte positions of whitespace inside text[..target]
WordBreaks(text, target) == {p \in 0..(target - 1) : is_whitespace(text[p + 1])}

find_optimal_split_point(text, chunk_size, chunk_overlap) ==
    LET target_position == saturating_sub(chunk_size, chunk_overlap)
    IN  IF target_position >= Len(text) THEN Len(text)
        ELSE IF ~is_char_boundary(text, target_position) THEN PANIC
        ELSE IF ParagraphBreaks(text, target_position) # {}
             THEN Max(ParagraphBreaks(text, target_position)) + 2
        ELSE IF LineBreaks(text, target_position) # {}
             THEN Max(LineBreaks(text, target_position)) + 1
        ELSE IF SentenceEnds(text, target_position) # {}
             THEN Max(SentenceEnds(text, target_position)) + 2
        ELSE IF WordBreaks(text, target_position) # {}
             THEN Max(WordBreaks(text, target_position)) + 1
        ELSE target_position

\* the strategy of find_optimal_split_point that returns for this text
split_rule(text, chunk_size, chunk_overlap) ==
    LET target_position == saturating_sub(chunk_size, chunk_overlap)
    IN  IF target_position >= Len(text) THEN "whole"
        ELSE IF ~is_char_boundary(text, target_position) THEN "panic"
        ELSE IF ParagraphBreaks(text, target_position) # {} THEN "paragraph"
        ELSE IF LineBreaks(text, target_position) # {} THEN "line"
        ELSE IF SentenceEnds(text, target_position) # {} THEN "sentence"
        ELSE IF WordBreaks(text, target_position) # {} THEN "word"
        ELSE "hard"

\* ------------------------------------------------------------------- state
VARIABLES
    pc,               \* "new" | "active" | "finalized" | "panicked"
    chunk_size,
    chunk_overlap,
    current_chunk,
    current_heading,
    current_level,
    position,
    completed_chunks,
    lines,            \* history: the lines fed to add_line so far
    emitLog,          \* history: for each completed chunk, how it was emitted
    returned,         \* the Option<&Chunk> returned by the last add_line
    result,           \* Some(the Vec<Chunk> returned by finalize)
    accs,             \* SpecPar: the accumulators of chunk_documents_parallel
    doc,              \* SpecDoc: the arguments of create_semantic_chunks
    doc_out,          \* SpecDoc: Some(lines fed and value returned)
    density_text,     \* SpecDensity: the argument of the density scorer
    density_out,      \* SpecDensity: Some(the score)
    metadata_out      \* SpecDensity: Some(the streaming metadata)

\* the variables of the single accumulator of Spec
chunkerVars == <<pc, chunk_size, chunk_overlap, current_chunk, current_heading,
                 current_level, position, completed_chunks, lines, emitLog,
                 returned, result>>

\* the variables of the other specifications
otherVars == <<accs, doc, doc_out, density_text, density_out, metadata_out>>

vars == <<chunkerVars, otherVars>>

\* the StreamingChunker value held in the variables
Self ==
    [chunk_size       |-> chunk_size,
     chunk_overlap    |-> chunk_overlap,
     current_chunk    |-> current_chunk,
     current_heading  |-> current_heading,
     current_level    |-> current_level,
     position         |-> position,
     completed_chunks |-> completed_chunks]

\* ---------------------------------------------------- StreamingChunker::new
new(size, overlap) ==
    [chunk_size       |-> size,
     chunk_overlap    |-> overlap,
     current_chunk    |-> <<>>,
     current_heading  |-> None,
     current_level    |-> 0,
     position         |-> 0,
     completed_chunks |-> <<>>]

\* ------------------------------------------------- finalize_current_chunk
\* mutant: the position counter is not advanced
finalize_current_chunk_keeps_position(self) ==
    [self EXCEPT
        !.completed_chunks =
            Append(@, create_chunk_object(self.current_chunk,
                                          self.current_heading,
                                          self.current_level,
                                          self.position)),
        !.current_chunk = <<>>]

\* mutant: the new chunk takes the place of the last completed one
finalize_current_chunk_replaces_last(self) ==
    [self EXCEPT
        !.completed_chunks =
            SubSeq(@, 1, Len(@) - 1)
                \o <<create_chunk_object(self.current_chunk,
                                         self.current_heading,
                                         self.current_level,
                                         self.position)>>,
        !.position = @ + 1,
        !.current_chunk = <<>>]

finalize_current_chunk(self) ==
    [self EXCEPT
        !.completed_chunks =
            Append(@, create_chunk_object(self.current_chunk,
                                          self.current_heading,
                                          self.current_level,
                                          self.position)),
        !.position = @ + 1,
        !.current_chunk = <<>>]

\* ------------------------------------------------------- split_large_chunk
\* mutant: the remainder starts one byte late
split_at_skips_byte(text, mid) ==
    <<Slice(text, 0, mid), Slice(text, mid + 1, Len(text))>>

\* str::split_at(mid): (text[..mid], text[mid..])
split_at(text, mid) == <<Slice(text, 0, mid), Slice(text, mid, Len(text))>>

\* Returns the chunker after the call and whether the call panicked.  The
\* slices text[..target_position] and split_at(split_point) panic before
\* anything is pushed; first_part[overlap_start..] panics after the chunk
\* has been pushed and the position incremented.
split_large_chunk(self) ==
    LET text == self.current_chunk
        split_point ==
            find_optimal_split_point(text, self.chunk_size, self.chunk_overlap)
    IN  IF split_point = PANIC \/ ~is_char_boundary(text, split_point)
        THEN [self |-> self, panicked |-> TRUE]
        ELSE
        LET first_part == split_at(text, split_point)[1]
            remaining == split_at(text, split_point)[2]
            pushed ==
                [self EXCEPT
                    !.completed_chunks =
                        Append(@, create_chunk_object(first_part,
                                                      self.current_heading,
                                                      self.current_level,
                                                      self.position)),
                    !.position = @ + 1]
            overlap_start ==
                IF Len(first_part) > self.chunk_overlap
                THEN Len(first_part) - self.chunk_overlap
                ELSE 0
        IN  IF ~is_char_boundary(first_part, overlap_start)
            THEN [self |-> pushed, panicked |-> TRUE]
            ELSE
            LET overlap_text == Slice(first_part, overlap_start, Len(first_part))
            IN  [self |-> [pushed EXCEPT
                              !.current_chunk = overlap_text \o trim(remaining)],
                 panicked |-> FALSE]

\* ---------------------------------------------------------------- add_line
\* Each branch returns the chunker after the call, whether the call
\* panicked, and the Option<&Chunk> the call returns.
last(chunks) == IF chunks = <<>> THEN None ELSE Some(chunks[Len(chunks)])

\* mutant: a buffer no longer than the overlap is not closed by a heading
add_line_heading_keeps_small(self, line) ==
    LET closed == IF Len(self.current_chunk) > self.chunk_overlap
                  THEN finalize_current_chunk(self)
                  ELSE self
        after == [closed EXCEPT
                    !.current_heading = Some(HeadingCaptures(line).text),
                    !.current_level = HeadingCaptures(line).level,
                    !.current_chunk = line]
    IN  [self |-> after, panicked |-> FALSE,
         ret |-> last(after.completed_chunks)]

\* mutant: the new heading is stored before the open chunk is closed
add_line_heading_sets_first(self, line) ==
    LET named == [self EXCEPT
                    !.current_heading = Some(HeadingCaptures(line).text),
                    !.current_level = HeadingCaptures(line).level]
        closed == IF named.current_chunk # <<>>
                  THEN finalize_current_chunk(named)
                  ELSE named
        after == [closed EXCEPT !.current_chunk = line]
    IN  [self |-> after, panicked |-> FALSE,
         ret |-> last(after.completed_chunks)]

\* mutant: the new buffer holds the captured heading text, not the line
add_line_heading_stores_text(self, line) ==
    LET closed == IF self.current_chunk # <<>>
                  THEN finalize_current_chunk(self)
                  ELSE self
        after == [closed EXCEPT
                    !.current_heading = Some(HeadingCaptures(line).text),
                    !.current_level = HeadingCaptures(line).level,
                    !.current_chunk = HeadingCaptures(line).text]
    IN  [self |-> after, panicked |-> FALSE,
         ret |-> last(after.completed_chunks)]

\* the branch taken when HEADING_REGEX captures the line
add_line_heading(self, line) ==
    LET closed == IF self.current_chunk # <<>>
                  THEN finalize_current_chunk(self)
                  ELSE self
        after == [closed EXCEPT
                    !.current_heading = Some(HeadingCaptures(line).text),
                    !.current_level = HeadingCaptures(line).level,
                    !.current_chunk = line]
    IN  [self |-> after, panicked |-> FALSE,
         ret |-> last(after.completed_chunks)]

\* mutant: the line is appended without the '\n' separator
add_line_body_no_separator(self, line) ==
    LET pushed == [self EXCEPT !.current_chunk = @ \o line]
    IN  IF Len(pushed.current_chunk) > self.chunk_size
        THEN LET out == split_large_chunk(pushed)
             IN  [self |-> out.self, panicked |-> out.panicked,
                  ret |-> IF out.panicked THEN None
                          ELSE last(out.self.completed_chunks)]
        ELSE [self |-> pushed, panicked |-> FALSE,
              ret |-> last(pushed.completed_chunks)]

\* the branch taken by every other line
add_line_body(self, line) ==
    LET sep == IF self.current_chunk # <<>> THEN <<NL>> ELSE <<>>
        pushed == [self EXCEPT !.current_chunk = @ \o sep \o line]
    IN  IF Len(pushed.current_chunk) > self.chunk_size
        THEN LET out == split_large_chunk(pushed)
             IN  [self |-> out.self, panicked |-> out.panicked,
                  ret |-> IF out.panicked THEN None
                          ELSE last(out.self.completed_chunks)]
        ELSE [self |-> pushed, panicked |-> FALSE,
              ret |-> last(pushed.completed_chunks)]

add_line(self, line) ==
    IF HEADING_REGEX_is_match(line)
    THEN add_line_heading(self, line)
    ELSE add_line_body(self, line)

\* ---------------------------------------------------------------- finalize
\* mutant: the buffer is flushed without the emptiness test
finalize_always_flushes(self) == finalize_current_chunk(self)

finalize(self) ==
    IF self.current_chunk # <<>>
    THEN finalize_current_chunk(self)
    ELSE self

\* ------------------------------------------------------------------ inputs
\* (chunk_size, chunk_overlap) pairs: StreamingChunker::new takes any usize
Configs == (0..MaxChunkSize) \X (0..MaxChunkOverlap)

\* The lines fed to add_line; a line never holds its delimiter.
Lines ==
    { <<>>,                                              \* empty line
      <<HASH, SP, "a">>,                                 \* "# a"    heading
      <<HASH, HASH, SP, SP, "b">>,                       \* "##  b"  heading
      <<HASH, SP, SP>>,                                  \* "#  "    heading
      <<HASH, "a">>,                                     \* "#a"     body
      <<SP, HASH, SP, "b">>,                             \* " # b"   body
      <<"a", DOT, SP, "b">>,                             \* "a. b"   body
      <<"a", LEAD, CONT, "b", "b", "b">>,                \* "aébbb"
      <<"a", "a", "a", SP, "a", "a", "a", "a", "a">> }   \* "aaa aaaaa"

\* ----------------------------------------------------------------- actions
\* the variables of a specification that is not running
ParIdle == accs = <<>>

DocIdle == doc = <<>> /\ doc_out = <<>>

DensityIdle ==
    density_text = <<>> /\ density_out = <<>> /\ metadata_out = <<>>

ChunkerInit ==
    /\ pc = "new"
    /\ chunk_size = 0
    /\ chunk_overlap = 0
    /\ current_chunk = <<>>
    /\ current_heading = None
    /\ current_level = 0
    /\ position = 0
    /\ completed_chunks = <<>>
    /\ lines = <<>>
    /\ emitLog = <<>>
    /\ returned = None
    /\ result = None

Init == ChunkerInit /\ ParIdle /\ DocIdle /\ DensityIdle

SetSelf(self) ==
    /\ chunk_size' = self.chunk_size
    /\ chunk_overlap' = self.chunk_overlap
    /\ current_chunk' = self.current_chunk
    /\ current_heading' = self.current_heading
    /\ current_level' = self.current_level
    /\ position' = self.position
    /\ completed_chunks' = self.completed_chunks

\* history of emissions: one entry per chunk pushed by the step
Logged(self, kind, n) ==
    emitLog \o [i \in 1..(Len(self.completed_chunks) - Len(completed_chunks)) |->
                    [kind |-> kind, nlines |-> n]]

New ==
    /\ pc = "new"
    /\ \E cfg \in Configs : SetSelf(new(cfg[1], cfg[2]))
    /\ pc' = "active"
    /\ UNCHANGED <<lines, emitLog, returned, result, otherVars>>

AddLine ==
    /\ pc = "active"
    /\ Len(lines) < MaxLines
    /\ \E line \in Lines :
        LET out == add_line(Self, line)
        IN  /\ SetSelf(out.self)
            /\ pc' = IF out.panicked THEN "panicked" ELSE "active"
            /\ returned' = out.ret
            /\ lines' = Append(lines, line)
            /\ emitLog' = Logged(out.self,
                                 IF HEADING_REGEX_is_match(line)
                                 THEN "heading" ELSE "split",
                                 Len(lines) + 1)
    /\ UNCHANGED <<result, otherVars>>

Finalize ==
    /\ pc = "active"
    /\ LET out == finalize(Self)
       IN  /\ SetSelf(out)
           /\ result' = Some(out.completed_chunks)
           /\ emitLog' = Logged(out, "final", Len(lines))
    /\ pc' = "finalized"
    /\ UNCHANGED <<lines, returned, otherVars>>

Next == New \/ AddLine \/ Finalize

Spec == Init /\ [][Next]_vars

\* ------------------------------------------- create_semantic_chunks(markdown)
\* str::lines(): the text is cut after every '\n' (split_inclusive); a piece
\* loses its final '\n' and then a '\r' that stood before that '\n'.  A piece
\* without '\n' (the last one) is returned as it is, and a '\r' elsewhere
\* stays inside its line.
RECURSIVE LinesFrom(_, _)
LinesFrom(s, piece) ==
    IF s = <<>> THEN (IF piece = <<>> THEN <<>> ELSE <<piece>>)
    ELSE IF Head(s) = NL
         THEN <<IF piece # <<>> /\ piece[Len(piece)] = CR
                THEN SubSeq(piece, 1, Len(piece) - 1)
                ELSE piece>> \o LinesFrom(Tail(s), <<>>)
         ELSE LinesFrom(Tail(s), Append(piece, Head(s)))

str_lines(s) == LinesFrom(s, <<>>)

\* one turn of the loop `for line in markdown.lines() { chunker.add_line(line)? }`:
\* nothing more is fed after a panic; fed collects the lines handed to add_line
fed_line(loop, line, step) ==
    [self |-> step.self, panicked |-> step.panicked, fed |-> Append(loop.fed, line)]

feed_line(loop, line) ==
    IF loop.panicked THEN loop
    ELSE fed_line(loop, line, add_line(loop.self, line))

\* the whole loop over the lines ls
FeedLines(self, ls) ==
    LET after[k \in 0..Len(ls)] ==
            IF k = 0 THEN [self |-> self, panicked |-> FALSE, fed |-> <<>>]
            ELSE feed_line(after[k - 1], ls[k])
    IN  after[Len(ls)]

\* chunker.finalize() after the loop; a panic in the loop returns nothing
finalize_loop(loop) ==
    [panicked |-> loop.panicked,
     fed |-> loop.fed,
     chunks |-> IF loop.panicked THEN <<>>
                ELSE finalize(loop.self).completed_chunks]

semantic_chunking_optimized(markdown, size, overlap) ==
    finalize_loop(FeedLines(new(size, overlap), str_lines(markdown)))

\* chunks.into_iter().map(|chunk| chunk.content).collect()
Contents(chunks) == [i \in 1..Len(chunks) |-> chunks[i].content]

content_strings(out) ==
    [panicked |-> out.panicked, fed |-> out.fed, contents |-> Contents(out.chunks)]

create_semantic_chunks(markdown, size, overlap) ==
    content_strings(semantic_chunking_optimized(markdown, size, overlap))

\* texts over a letter and the two line-ending bytes
DocTexts == UNION {[1..n -> {"a", NL, CR}] : n \in 0..MaxTextLen}

\* a chunk size no text exceeds, and one that splits
DocConfigs == {<<MaxChunkSize, 0>>, <<2, 1>>}

InitDoc ==
    /\ ChunkerInit /\ ParIdle /\ DensityIdle
    /\ doc \in {<<t, cfg[1], cfg[2]>> : t \in DocTexts, cfg \in DocConfigs}
    /\ doc_out = None

Chunk ==
    /\ Len(doc) = 3
    /\ doc_out = None
    /\ doc_out' = Some(create_semantic_chunks(doc[1], doc[2], doc[3]))
    /\ UNCHANGED <<chunkerVars, accs, doc, density_text, density_out, metadata_out>>

NextDoc == Chunk

SpecDoc == InitDoc /\ [][NextDoc]_vars

\* ------------------------------------------------ chunk_documents_parallel
\* One task per document of the vector: the closure given to map, run by the
\* thread pool in any order and interleaved at the calls it makes.  Each task
\* owns its chunker and its line iterator.
queued(document) ==
    [text          |-> document[1],
     chunk_size    |-> document[2],
     chunk_overlap |-> document[3],
     pc            |-> "queued",
     todo          |-> <<>>,
     self          |-> new(0, 0),
     out           |-> None]

\* StreamingChunker::new and markdown.lines()
task_start(tasks, i) ==
    [tasks EXCEPT
        ![i].self = new(tasks[i].chunk_size, tasks[i].chunk_overlap),
        ![i].todo = str_lines(tasks[i].text),
        ![i].pc = "active"]

\* mutant: every task feeds the chunker of the first task
task_add_line_shared_chunker(tasks, i) ==
    LET step == add_line(tasks[1].self, Head(tasks[i].todo))
    IN  [[tasks EXCEPT ![i].todo = Tail(@),
                       ![i].pc = IF step.panicked THEN "panicked" ELSE "active"]
            EXCEPT ![1].self = step.self]

\* one turn of the loop: chunker.add_line(line)?
task_add_line(tasks, i) ==
    LET step == add_line(tasks[i].self, Head(tasks[i].todo))
    IN  [tasks EXCEPT
            ![i].self = step.self,
            ![i].todo = Tail(@),
            ![i].pc = IF step.panicked THEN "panicked" ELSE "active"]

\* chunker.finalize() and the map to the content strings
task_finalize(tasks, i) ==
    LET done == finalize(tasks[i].self)
    IN  [tasks EXCEPT
            ![i].self = done,
            ![i].out = Some(Contents(done.completed_chunks)),
            ![i].pc = "done"]

\* "# a\naaa aaaaa" and "a. b\r\na\u{e9}bbb\n"
ParTexts ==
    { <<HASH, SP, "a", NL, "a", "a", "a", SP, "a", "a", "a", "a", "a">>,
      <<"a", DOT, SP, "b", CR, NL, "a", LEAD, CONT, "b", "b", "b", NL>> }

ParConfigs == {<<5, 2>>, <<MaxChunkSize, 0>>}

Documents == {<<t, cfg[1], cfg[2]>> : t \in ParTexts, cfg \in ParConfigs}

InitPar ==
    /\ ChunkerInit /\ DocIdle /\ DensityIdle
    /\ accs \in [1..NumTasks -> {queued(d) : d \in Documents}]

ParStart ==
    /\ \E i \in DOMAIN accs :
        /\ accs[i].pc = "queued"
        /\ accs' = task_start(accs, i)
    /\ UNCHANGED <<chunkerVars, doc, doc_out, density_text, density_out, metadata_out>>

ParAddLine ==
    /\ \E i \in DOMAIN accs :
        /\ accs[i].pc = "active"
        /\ accs[i].todo # <<>>
        /\ accs' = task_add_line(accs, i)
    /\ UNCHANGED <<chunkerVars, doc, doc_out, density_text, density_out, metadata_out>>

ParFinalize ==
    /\ \E i \in DOMAIN accs :
        /\ accs[i].pc = "active"
        /\ accs[i].todo = <<>>
        /\ accs' = task_finalize(accs, i)
    /\ UNCHANGED <<chunkerVars, doc, doc_out, density_text, density_out, metadata_out>>

NextPar == ParStart \/ ParAddLine \/ ParFinalize

SpecPar == InitPar /\ [][NextPar]_vars

\* ------------------------------------------------- the density scorer alone
\* words with every combination of the three indicators
DensityWords ==
    { <<"a">>,                              \* no indicator
      <<"A">>,                              \* upper-case first character
      <<"1">>,                              \* a digit
      <<"d", "a", "t", "a">>,               \* a keyword
      <<"d", "a", "t", "a", DOT>>,          \* a keyword with punctuation
      <<"D", "a", "t", "a", "1">> }         \* all three

\* n copies of a word, each preceded by a space
RECURSIVE Repeated(_, _)
Repeated(word, n) ==
    IF n = 0 THEN <<>> ELSE <<SP>> \o word \o Repeated(word, n - 1)

\* texts of up to MaxFill copies of one word and MaxExtra of another
DensityTexts ==
    {Repeated(w, f) \o Repeated(e, x) \o <<SP>> :
        w \in DensityWords, f \in 0..MaxFill,
        e \in DensityWords, x \in 0..MaxExtra}

InitDensity ==
    /\ ChunkerInit /\ ParIdle /\ DocIdle
    /\ density_text \in DensityTexts
    /\ density_out = None
    /\ metadata_out = None

Score ==
    /\ density_text # <<>>
    /\ density_out = None
    /\ density_out' = Some(calculate_semantic_density(density_text))
    /\ UNCHANGED <<chunkerVars, accs, doc, doc_out, density_text, metadata_out>>

Metadata ==
    /\ density_text # <<>>
    /\ metadata_out = None
    /\ metadata_out' = Some(calculate_chunk_metadata_efficient(density_text))
    /\ UNCHANGED <<chunkerVars, accs, doc, doc_out, density_text, density_out>>

NextDensity == Score \/ Metadata

SpecDensity == InitDensity /\ [][NextDensity]_vars

\* ------------------------------------------------------------------ claims
Min2(a, b) == IF a <= b THEN a ELSE b

NChunks == Len(completed_chunks)

\* the accumulator has not panicked: its chunks can be observed
Live == pc \in {"active", "finalized"}

\* the last k entries of a sequence
LastN(s, k) == SubSeq(s, Len(s) - k + 1, Len(s))

\* the lines of a text, separated by '\n'
RECURSIVE SplitOnNL(_)
SplitOnNL(s) ==
    IF \A i \in 1..Len(s) : s[i] # NL THEN <<s>>
    ELSE LET p == CHOOSE i \in 1..Len(s) :
                      s[i] = NL /\ \A j \in 1..(i - 1) : s[j] # NL
         IN  <<SubSeq(s, 1, p - 1)>> \o SplitOnNL(SubSeq(s, p + 1, Len(s)))

\* the concatenation of a sequence of texts
RECURSIVE ConcatAll(_)
ConcatAll(ss) == IF ss = <<>> THEN <<>> ELSE Head(ss) \o ConcatAll(Tail(ss))

NonWhitespace(s) == SelectSeq(s, LAMBDA b : ~is_whitespace(b))

\* a is a subsequence of b
RECURSIVE IsSubsequence(_, _)
IsSubsequence(a, b) ==
    IF a = <<>> THEN TRUE
    ELSE IF b = <<>> THEN FALSE
    ELSE IF Head(a) = Head(b) THEN IsSubsequence(Tail(a), Tail(b))
    ELSE IsSubsequence(a, Tail(b))


\* indexes of the heading lines among the first n lines fed
HeadingLines(n) == {j \in 1..n : HEADING_REGEX_is_match(lines[j])}

\* C1: every emitted chunk other than the final flushed remainder has a
\* content of at most chunk_size + chunk_overlap characters, whether it was
\* cut by a split or closed by a heading transition.
C1_SizeBound ==
    \A i \in 1..NChunks :
        emitLog[i].kind # "final" =>
            CharCount(completed_chunks[i].content) <= chunk_size + chunk_overlap

\* C2: when chunk i was produced by a split, the first
\* min(chunk_overlap, len(C[i])) characters of chunk i+1 are the last
\* min(chunk_overlap, len(C[i])) characters of chunk i, whatever emitted
\* chunk i+1.
C2_OverlapContainment ==
    Live =>
    \A i \in 1..(NChunks - 1) :
        emitLog[i].kind = "split" =>
            LET prev == Chars(completed_chunks[i].content)
                next == Chars(completed_chunks[i + 1].content)
                k == Min2(chunk_overlap, Len(prev))
            IN  /\ Len(next) >= k
                /\ SubSeq(next, 1, k) = LastN(prev, k)

\* C3: no emitted chunk holds two different lines that both match the
\* heading pattern.
C3_HeadingIsolation ==
    Live =>
    \A i \in 1..NChunks :
        LET ls == SplitOnNL(completed_chunks[i].content)
        IN  ~ \E a, b \in 1..Len(ls) :
                /\ a < b
                /\ ls[a] # ls[b]
                /\ HEADING_REGEX_is_match(ls[a])
                /\ HEADING_REGEX_is_match(ls[b])

\* C4: the i-th completed chunk (zero-based) has position i and the position
\* counter equals the number of completed chunks: 0, 1, 2, ... without gap
\* or repeat, whatever emitted the chunks.
C4_PositionsAreIndexes ==
    /\ position = NChunks
    /\ \A i \in 1..NChunks : completed_chunks[i].position = i - 1

C4_Witness ==
    /\ NChunks >= 3
    /\ \E i, j, k \in 1..NChunks :
        /\ emitLog[i].kind = "split"
        /\ emitLog[j].kind = "heading"
        /\ emitLog[k].kind = "final"

\* C5: a configuration with chunk_overlap >= chunk_size is rejected at
\* construction: no accumulator exists and no chunk is emitted under it.
C5_RejectsOverlapNotBelowSize ==
    chunk_overlap >= chunk_size => pc = "new" /\ NChunks = 0

\* C6: after finalize, the non-whitespace bytes of the input lines, in input
\* order, are a subsequence of the concatenated chunk contents in emission
\* order: nothing is dropped or reordered.
C6_InputIsSubsequence ==
    pc = "finalized" =>
        IsSubsequence(NonWhitespace(ConcatAll(lines)),
                      ConcatAll(Contents(result[1])))

C6_Witness ==
    /\ pc = "finalized"
    /\ chunk_overlap > 0
    /\ \E i, j \in 1..NChunks :
        /\ emitLog[i].kind = "split"
        /\ emitLog[j].kind = "heading"
    /\ \E i \in 1..Len(lines) : lines[i] # <<>> /\ is_whitespace(lines[i][1])
    /\ Len(ConcatAll(Contents(result[1]))) > Len(ConcatAll(lines))

\* C7: a heading line fed while the buffer is non-empty emits exactly one
\* chunk, holding the entire buffer whatever its size, and leaves the buffer
\* equal to the heading line; fed while the buffer is empty it emits nothing.
\* Hence an input with k heading lines yields at least k chunks.
HeadingStepOk ==
    (pc = "active" /\ Len(lines') = Len(lines) + 1
        /\ HEADING_REGEX_is_match(lines'[Len(lines')])) =>
            /\ pc' = "active"
            /\ current_chunk' = lines'[Len(lines')]
            /\ IF current_chunk # <<>>
               THEN /\ Len(completed_chunks') = NChunks + 1
                    /\ SubSeq(completed_chunks', 1, NChunks) = completed_chunks
                    /\ completed_chunks'[NChunks + 1].content = current_chunk
               ELSE completed_chunks' = completed_chunks

C7_HeadingTransition ==
    /\ [][HeadingStepOk]_vars
    /\ [](pc = "finalized" =>
            Len(result[1]) >= Cardinality(HeadingLines(Len(lines))))

C7_Witness ==
    /\ pc = "finalized"
    /\ Cardinality(HeadingLines(Len(lines))) >= 2
    /\ \E i \in 1..NChunks :
        /\ emitLog[i].kind = "heading"
        /\ Len(completed_chunks[i].content) > chunk_size + chunk_overlap

\* C8: add_line returns a chunk exactly when that call emitted one, and then
\* it returns the chunk the call emitted.
EmittedByLastCall == {i \in 1..NChunks : emitLog[i].nlines = Len(lines)}

C8_ReturnsOwnChunkOnly ==
    (pc = "active" /\ lines # <<>>) =>
        /\ returned # None <=> EmittedByLastCall # {}
        /\ EmittedByLastCall # {} => returned = Some(completed_chunks[NChunks])

\* C9: finalize returns the chunks completed so far, in order, followed by
\* one chunk holding the whole buffer when the buffer is non-empty and by
\* nothing when it is empty; all-empty input lines give an empty result.
FinalizeStepOk ==
    (pc = "active" /\ pc' = "finalized") =>
        /\ Len(result') = 1
        /\ IF current_chunk # <<>>
           THEN /\ Len(result'[1]) = NChunks + 1
                /\ SubSeq(result'[1], 1, NChunks) = completed_chunks
                /\ result'[1][NChunks + 1].content = current_chunk
           ELSE result'[1] = completed_chunks

C9_FinalizeFlushes ==
    /\ [][FinalizeStepOk]_vars
    /\ [](pc = "finalized" /\ (\A i \in 1..Len(lines) : lines[i] = <<>>)
            => result = Some(<<>>))

C9_Witness ==
    /\ pc = "finalized"
    /\ NChunks >= 2
    /\ emitLog[NChunks].kind = "final"
    /\ emitLog[NChunks - 1].kind # "final"
    /\ result = Some(completed_chunks)

\* C10: a chunk's heading is the captured text of the last heading line fed
\* before the chunk was closed (the closing heading line excluded), None when
\* there is none; its level is that line's number of leading '#', in 1..6,
\* and is 0 exactly when the heading is None.
OwnLines(i) ==
    IF emitLog[i].kind = "heading" THEN emitLog[i].nlines - 1
    ELSE emitLog[i].nlines

C10_HeadingMetadata ==
    \A i \in 1..NChunks :
        LET hs == HeadingLines(OwnLines(i))
            c == completed_chunks[i]
        IN  /\ c.level = 0 <=> c.heading = None
            /\ IF hs = {}
               THEN c.heading = None
               ELSE LET line == lines[Max(hs)]
                    IN  /\ c.heading = Some(HeadingCaptures(line).text)
                        /\ c.level = HashRun(line)
                        /\ c.level \in 1..6

C10_Witness ==
    /\ NChunks >= 3
    /\ completed_chunks[1].heading = None
    /\ \E i \in 1..(NChunks - 1) :
        /\ emitLog[i].kind = "split"
        /\ completed_chunks[i].heading # None
        /\ completed_chunks[i + 1].heading = completed_chunks[i].heading
        /\ completed_chunks[i + 1].level = completed_chunks[i].level
    /\ \E j \in 1..NChunks :
        /\ emitLog[j].kind = "heading"
        /\ completed_chunks[j].heading #
               Some(HeadingCaptures(lines[emitLog[j].nlines]).text)

\* the whitespace-delimited tokens of a text, left to right
RECURSIVE Tokens(_)
Tokens(s) ==
    LET t == TrimStart(s)
    IN  IF t = <<>> THEN <<>>
        ELSE LET n == IF \E i \in 1..Len(t) : is_whitespace(t[i])
                      THEN (CHOOSE i \in 1..Len(t) :
                               /\ is_whitespace(t[i])
                               /\ \A j \in 1..(i - 1) : ~is_whitespace(t[j])) - 1
                      ELSE Len(t)
             IN  <<SubSeq(t, 1, n)>> \o Tokens(SubSeq(t, n + 1, Len(t)))

\* the number of characters of a text: its bytes less the continuation bytes
ScalarCount(s) == Len(s) - Cardinality({i \in 1..Len(s) : IsContinuation(s[i])})

\* C11: every emitted chunk's char_count is the number of characters of its
\* content and its word_count the number of whitespace-delimited tokens of
\* its content, overlap prefix included.
C11_CountsMatchContent ==
    \A i \in 1..NChunks :
        /\ completed_chunks[i].char_count = ScalarCount(completed_chunks[i].content)
        /\ completed_chunks[i].word_count = Len(Tokens(completed_chunks[i].content))

C11_Witness ==
    \E i \in 2..NChunks :
        /\ emitLog[i - 1].kind = "split"
        /\ chunk_overlap > 0
        /\ completed_chunks[i].word_count >= 2
        /\ completed_chunks[i].char_count < Len(completed_chunks[i].content)

\* texts joined by '\n'
RECURSIVE JoinNL(_)
JoinNL(ls) ==
    IF ls = <<>> THEN <<>>
    ELSE IF Len(ls) = 1 THEN ls[1]
    ELSE ls[1] \o <<NL>> \o JoinNL(Tail(ls))

\* the number of leading lines that are no heading lines
RECURSIVE BodyRun(_)
BodyRun(ls) ==
    IF ls = <<>> \/ HEADING_REGEX_is_match(Head(ls)) THEN 0
    ELSE 1 + BodyRun(Tail(ls))

RECURSIVE DropLeadingEmpty(_)
DropLeadingEmpty(ls) ==
    IF ls # <<>> /\ Head(ls) = <<>> THEN DropLeadingEmpty(Tail(ls)) ELSE ls

\* one text per heading section of ls, ls empty or starting with a heading
RECURSIVE HeadingSections(_)
HeadingSections(ls) ==
    IF ls = <<>> THEN <<>>
    ELSE LET n == BodyRun(Tail(ls))
         IN  <<JoinNL(SubSeq(ls, 1, 1 + n))>>
                 \o HeadingSections(SubSeq(ls, 2 + n, Len(ls)))

\* the sections of a document: the text before the first heading, when it
\* has a non-empty line, then one section per heading line
Sections(ls) ==
    LET lead == DropLeadingEmpty(SubSeq(ls, 1, BodyRun(ls)))
    IN  (IF lead = <<>> THEN <<>> ELSE <<JoinNL(lead)>>)
            \o HeadingSections(SubSeq(ls, BodyRun(ls) + 1, Len(ls)))

NoSplit == \A i \in 1..NChunks : emitLog[i].kind # "split"

C13_ProseSplitsByWordOrHardCut ==
    (/\ pc = "active"
     /\ Len(lines) = 2
     /\ HEADING_REGEX_is_match(lines[1])
     /\ ~HEADING_REGEX_is_match(lines[2])
     /\ \A j \in 1..Len(lines[2]) : lines[2][j] \notin {DOT, NL}
     /\ CharCount(lines[2]) > chunk_size
     /\ NChunks = 1
     /\ emitLog[1].kind = "split") =>
        /\ completed_chunks[1].content =
              Slice(JoinNL(lines), 0,
                    find_optimal_split_point(JoinNL(lines), chunk_size, chunk_overlap))
        /\ split_rule(JoinNL(lines), chunk_size, chunk_overlap) \in {"word", "hard"}

\* str::contains
Contains(s, sub) ==
    \E k \in 0..(Len(s) - Len(sub)) : SubSeq(s, k + 1, k + Len(sub)) = sub

FirstLineIsHeading == lines # <<>> /\ HEADING_REGEX_is_match(lines[1])

BodyStepCountsScalars ==
    (/\ pc = "active"
     /\ Len(lines') = Len(lines) + 1
     /\ ~HEADING_REGEX_is_match(lines'[Len(lines')])) =>
        LET sep == IF current_chunk # <<>> THEN <<NL>> ELSE <<>>
            buf == current_chunk \o sep \o lines'[Len(lines')]
            emitted == Len(completed_chunks') > NChunks
            triggered == emitted \/ pc' = "panicked"
        IN  /\ triggered <=> CharCount(buf) > chunk_size
            /\ (emitted /\ pc' = "active") =>
                  LET c == completed_chunks'[NChunks + 1].content
                      k == Min2(chunk_overlap, CharCount(c))
                  IN  Chars(current_chunk') =
                          LastN(Chars(c), k)
                              \o Chars(trim(SubSeq(buf, Len(c) + 1, Len(buf))))

C17_SizesInScalars == [][BodyStepCountsScalars]_vars

\* C18: add_line returns Ok after one of its two branches for every state
\* and every line, and finalize returns Ok: no operation fails and no line
\* is rejected.
C18_EveryCallReturnsOk ==
    /\ pc # "panicked"
    /\ pc = "finalized" => Len(result) = 1

\* the byte length of the longest line fed so far
LongestLine == Max({0} \cup {Len(lines[j]) : j \in 1..Len(lines)})

\* C20: with chunk_overlap < chunk_size, after every add_line call the
\* buffer is no longer than chunk_size plus the longest line fed so far.
C20_BufferBounded ==
    (pc = "active" /\ chunk_overlap < chunk_size) =>
        CharCount(current_chunk) <= chunk_size + LongestLine

\* the token holds a keyword, letter case ignored
HoldsKeyword(tok) ==
    \E k \in keywords : \E off \in 0..(Len(tok) - Len(k)) :
        \A i \in 1..Len(k) : to_lowercase(<<tok[off + i]>>) = <<k[i]>>

\* the indicators of a token, in tenths
TokenScore(tok) ==
    (IF is_uppercase(tok[1]) THEN 5 ELSE 0)
    + (IF \E i \in 1..Len(tok) : is_numeric(tok[i]) THEN 3 ELSE 0)
    + (IF HoldsKeyword(tok) THEN 7 ELSE 0)

RECURSIVE TotalScore(_)
TotalScore(toks) ==
    IF toks = <<>> THEN 0 ELSE TokenScore(Head(toks)) + TotalScore(Tail(toks))

\* C19: the density of a text without token is 0; with n tokens and acc the
\* sum of their indicators it is min(1, acc/n) + min(0.2, n/100), hence
\* between 0 and 1.2 (exact fractions, acc in tenths).
C19_DensityFormula ==
    density_out # None =>
        LET toks == Tokens(density_text)
            n == Len(toks)
            acc == TotalScore(toks)
            d == density_out[1]
        IN  /\ d.den > 0
            /\ n = 0 => d.num = 0
            /\ n > 0 =>
                  d.num * 100 * n =
                      d.den * (Min2(100 * n, 10 * acc) + Min2(20 * n, n * n))
            /\ 0 <= d.num
            /\ 10 * d.num <= 12 * d.den

C19_Witness ==
    /\ density_out # None
    /\ Len(Tokens(density_text)) > 20
    /\ TotalScore(Tokens(density_text)) > 10 * Len(Tokens(density_text))
    /\ 10 * density_out[1].num = 12 * density_out[1].den

\* C16: every '\n', '\r\n' and bare '\r' of the input ends a line, so no line
\* passed to add_line holds a '\r' or a '\n'.
C16_NoDelimiterInLines ==
    doc_out # None =>
        \A i \in 1..Len(doc_out[1].fed) :
            \A j \in 1..Len(doc_out[1].fed[i]) :
                doc_out[1].fed[i][j] \notin {CR, NL}

\* the tasks given the same text and configuration as task i
SameDocument(i) ==
    {j \in DOMAIN accs :
        /\ accs[j].text = accs[i].text
        /\ accs[j].chunk_size = accs[i].chunk_size
        /\ accs[j].chunk_overlap = accs[i].chunk_overlap}

BodyStep ==
    /\ pc = "active"
    /\ Len(lines') = Len(lines) + 1
    /\ ~HEADING_REGEX_is_match(lines'[Len(lines')])

\* the buffer once the line is appended, before any split
Pushed ==
    current_chunk \o (IF current_chunk # <<>> THEN <<NL>> ELSE <<>>)
                  \o lines'[Len(lines')]

\* the step split the buffer and returned
SplitStep ==
    /\ BodyStep
    /\ Len(completed_chunks') > NChunks
    /\ pc' = "active"

\* the chunk the split emitted, and the cut index in bytes
SplitChunk == completed_chunks'[NChunks + 1]

Cut == Len(SplitChunk.content)

Target == saturating_sub(chunk_size, chunk_overlap)

\* the last k characters of s
LastChars(s, k) ==
    LET i == CHOOSE j \in 0..Len(s) :
                 /\ is_char_boundary(s, j)
                 /\ CharCount(Slice(s, j, Len(s))) = k
    IN  Slice(s, i, Len(s))

\* C21: a split at cut index c of buffer B emits B[0..c] with the current
\* heading, level and position, and leaves as buffer the last
\* min(chunk_overlap, c) characters of B[0..c] followed by B[c..] trimmed.
SplitStepSeedsOverlap ==
    SplitStep =>
        LET c == CharCount(SplitChunk.content)
        IN  /\ Len(completed_chunks') = NChunks + 1
            /\ SplitChunk.content = Slice(Pushed, 0, Cut)
            /\ SplitChunk.heading = current_heading
            /\ SplitChunk.level = current_level
            /\ SplitChunk.position = position
            /\ current_chunk' =
                  LastChars(SplitChunk.content, Min2(chunk_overlap, c))
                      \o trim(Slice(Pushed, Cut, Len(Pushed)))

C21_SplitSeedsOverlap == [][SplitStepSeedsOverlap]_vars

\* cut indexes just after the whitespace that follows a '.' of the text
SentenceCuts(text) ==
    {i + 1 : i \in {j \in 1..(Len(text) - 1) :
                       text[j] = DOT /\ is_whitespace(text[j + 1])}}

\* C22: the rules are tried in the order paragraph, sentence, line, word,
\* hard cut: when the searched window holds a sentence break and a line
\* break but no paragraph break, the cut is the sentence rule's.
SplitStepPrefersSentence ==
    (/\ SplitStep
     /\ ParagraphBreaks(Pushed, Target) = {}
     /\ LineBreaks(Pushed, Target) # {}
     /\ SentenceCuts(Slice(Pushed, 0, Target)) # {}) =>
        Cut \in SentenceCuts(Pushed)

C22_SentenceBeforeLine == [][SplitStepPrefersSentence]_vars

\* C23: the cut is the first boundary found searching forward from the
\* target chunk_size - chunk_overlap, so it is never below the target.
SplitStepCutsPastTarget == SplitStep => Cut >= Target

C23_CutNotBelowTarget == [][SplitStepCutsPastTarget]_vars

\* C24: the boundary detector returns the text length when the target is at
\* or beyond it, and for an overflowing buffer an offset between 0 and the
\* text length at which the buffer can be split.
BodyStepCutIsValid ==
    BodyStep =>
        LET cut == find_optimal_split_point(Pushed, chunk_size, chunk_overlap)
        IN  /\ Target >= Len(Pushed) => cut = Len(Pushed)
            /\ Len(Pushed) > chunk_size =>
                  /\ cut \in 0..Len(Pushed)
                  /\ is_char_boundary(Pushed, cut)

C24_CutAlwaysValid == [][BodyStepCutIsValid]_vars

\* C25: every add_line or finalize step leaves the completed chunks it found
\* as they were: the sequence before the step is a prefix of the sequence
\* after it.
StepKeepsCompletedChunks ==
    /\ Len(completed_chunks') >= NChunks
    /\ SubSeq(completed_chunks', 1, NChunks) = completed_chunks

C25_CompletedChunksAppendOnly == [][StepKeepsCompletedChunks]_vars

\* chunks emitted by a split, by a heading and by finalize, in that order
C25_Witness ==
    /\ pc = "finalized"
    /\ NChunks >= 3
    /\ emitLog[1].kind = "split"
    /\ \E i \in 2..(NChunks - 1) : emitLog[i].kind = "heading"
    /\ emitLog[NChunks].kind = "final"

\* C27: with chunk_overlap < chunk_size a split leaves a buffer strictly
\* shorter than the buffer it split.
SplitStepShortensBuffer ==
    (SplitStep /\ chunk_overlap < chunk_size) =>
        CharCount(current_chunk') < CharCount(Pushed)

C27_SplitMakesProgress == [][SplitStepShortensBuffer]_vars

\* C28: no emitted chunk has empty content, for every configuration that
\* StreamingChunker::new accepts.
C28_NoEmptyChunk ==
    \A i \in 1..NChunks : completed_chunks[i].content # <<>>

\* C29: under every rule the cut is at most the target
\* chunk_size - chunk_overlap, so a chunk produced by a split has at most
\* that many characters.
SplitStepCutWithinTarget ==
    SplitStep => CharCount(SplitChunk.content) <= Target

C29_CutAtMostTarget == [][SplitStepCutWithinTarget]_vars

\* C30: an add_line call adds at most one completed chunk; a body line that
\* leaves the buffer length at or below chunk_size adds none and leaves
\* position, heading and level alone.
AddLineStepEmitsAtMostOne ==
    (pc = "active" /\ Len(lines') = Len(lines) + 1) =>
        /\ Len(completed_chunks') <= NChunks + 1
        /\ (BodyStep /\ CharCount(Pushed) <= chunk_size) =>
              /\ completed_chunks' = completed_chunks
              /\ position' = position
              /\ current_heading' = current_heading
              /\ current_level' = current_level

C30_AtMostOneChunkPerLine == [][AddLineStepEmitsAtMostOne]_vars

\* C26: for every content, calculate_chunk_metadata_efficient returns the
\* word_count, char_count and semantic_density of the metadata attached to
\* an emitted chunk with that content.
C26_ScorersAgree ==
    metadata_out # None =>
        LET emitted == create_chunk_object(density_text, None, 0, 0)
        IN  /\ metadata_out[1].word_count = emitted.word_count
            /\ metadata_out[1].char_count = emitted.char_count
            /\ metadata_out[1].semantic_density = emitted.semantic_density

====
